---------------------------- MODULE Spec2Model ----------------------------
(***************************************************************************)
(* Model of OpenClawLightningTracer (openclaw_integration.py): the         *)
(* availability gate, the session / trace-context life cycle, the          *)
(* trace_tool context manager and the reward calculation.                  *)
(*                                                                         *)
(* An optional Python value is a sequence: None is << >> and a value v is  *)
(* << v >>.  Rewards are counted in tenths (1.0 is 10, 0.1 is 1).          *)
(* A string is represented by its length where only the length matters.    *)
(***************************************************************************)
EXTENDS Integers, Sequences, FiniteSets

VARIABLES
    flag,               \* os.getenv("ENABLE_AGENT_LIGHTNING") is "true"
    lib,                \* AGENT_LIGHTNING_AVAILABLE
    tracer,             \* "none": no instance yet; "live": constructed
    enabled,            \* self.enabled
    current_rollout,    \* self.current_rollout
    current_tracer_ctx, \* self.current_tracer_ctx
    session_start_time, \* self.session_start_time
    tool_call_count,    \* self.tool_call_count
    open_ctx,           \* backend: trace contexts entered and not yet exited
    n_rollouts,         \* backend: rollouts started so far (the next id)
    lifespans,          \* backend: tracer.lifespan(store) entered (never exited)
    clock,              \* time.time()
    rollout_failed,     \* history: some start_session's rollout start failed
    last,               \* what the caller observed of the last operation
    args,               \* the reward arguments the caller passes (RewardSpec)
    prev_reward,        \* history (RewardSpec): the reward forwarded by the
                        \* tracer call before the last one, and the time
                        \* of that call, if both were emit_task_reward
    current_sessions,   \* bridge: current_sessions, id -> record
    resp,               \* bridge: the response to the last request
    started,            \* history: ids whose /session/start has responded
                        \* and whose /session/end has not
    off_sessions,       \* current_sessions of the run of the same requests
                        \* in a process whose feature flag is off
    ctx_owner,          \* history: trace context -> id of the session whose
                        \* /session/start opened it
    exit_invoked,       \* history: contexts whose __aexit__ has been invoked
    pending_end,        \* bridge: the /session/end suspended in __aexit__
    pending_start,      \* bridge: the /session/start suspended in
                        \* start_rollout or __aenter__
    emit_time           \* history (RewardSpec): time.time() of the last
                        \* emit_task_reward

vars == << flag, lib, tracer, enabled, current_rollout, current_tracer_ctx,
           session_start_time, tool_call_count, open_ctx, n_rollouts,
           lifespans, clock, rollout_failed, last, args, prev_reward,
           current_sessions,
           resp, started, off_sessions, ctx_owner, exit_invoked,
           pending_end, pending_start, emit_time >>

tracerState == << enabled, current_rollout, current_tracer_ctx,
                  session_start_time, tool_call_count >>

backendState == << open_ctx, n_rollouts, lifespans >>

bridgeVars == << current_sessions, resp, started, off_sessions, ctx_owner,
                 exit_invoked, pending_end, pending_start >>

(***************************************************************************)
(* Bounds of the model.                                                    *)
(***************************************************************************)
MaxRollouts == 2

MaxToolCalls == 1

MaxClock == 59

(***************************************************************************)
(* Program constants.                                                      *)
(***************************************************************************)
BaseSuccess == 10

BaseFailure == -5

Bonus == 1

ThirtySeconds == 30

NeutralRating == 3

FeedbackWeight == 2

TruncLen == 200

None == << >>

Some(v) == << v >>

\* Python truthiness of an optional number: None and 0 are false.
Truthy(x) == x # None /\ x[1] # 0

Min(a, b) == IF a < b THEN a ELSE b

\* The observation of an operation that has not been called.
NoOp ==
    [ op |-> "none", raised |-> FALSE, calls |-> {}, runs |-> 0,
      work |-> "none", outcome |-> "none", yieldAt |-> "none",
      attrs |-> << >>, emitted |-> FALSE, reward |-> 0, fail |-> "none" ]

\* The arguments of a call emit_task_reward(success=False).
NoArgs ==
    [ success |-> FALSE, tu |-> None, et |-> None, dur |-> None,
      rating |-> None ]

\* No request has been answered.
NoResp == [ op |-> "none", sid |-> "none", status |-> "none", flag |-> FALSE ]

InitBase ==
    /\ flag \in BOOLEAN
    /\ lib \in BOOLEAN
    /\ tracer = "none"
    /\ enabled = FALSE
    /\ current_rollout = None
    /\ current_tracer_ctx = None
    /\ session_start_time = None
    /\ tool_call_count = 0
    /\ open_ctx = {}
    /\ n_rollouts = 0
    /\ lifespans = 0
    /\ clock = 1
    /\ rollout_failed = FALSE
    /\ last = NoOp
    /\ current_sessions = << >>
    /\ resp = NoResp
    /\ started = {}
    /\ off_sessions = << >>
    /\ ctx_owner = << >>
    /\ exit_invoked = {}
    /\ pending_end = None
    /\ pending_start = None
    /\ prev_reward = None
    /\ emit_time = 0

Init == InitBase /\ args = NoArgs

(***************************************************************************)
(* __init__ and _check_enabled.                                            *)
(***************************************************************************)
\* _check_enabled: "ok" with its result, or "raise" when it uses self.logger,
\* which __init__ assigns only after the call (line 62).
CheckEnabled(f, l) ==
    IF ~f THEN [ res |-> "ok", value |-> FALSE ]
    ELSE IF ~l THEN [ res |-> "raise", value |-> FALSE ]
    ELSE [ res |-> "ok", value |-> TRUE ]

Construct(ctorThrows) ==
    /\ tracer = "none"
    /\ UNCHANGED << bridgeVars, args, prev_reward, emit_time >>
    /\ LET chk == CheckEnabled(flag, lib) IN
       IF chk.res = "raise"
       THEN /\ last' = [ NoOp EXCEPT !.op = "init", !.raised = TRUE,
                                     !.outcome = "AttributeError" ]
            /\ UNCHANGED << tracer, enabled >>
       ELSE /\ tracer' = "live"
            /\ enabled' = (chk.value /\ ~ctorThrows)
            /\ last' = [ NoOp EXCEPT !.op = "init",
                           !.calls = IF chk.value THEN {"OtelTracer"} ELSE {},
                           !.fail = IF chk.value /\ ctorThrows
                                    THEN "ctor" ELSE "none" ]
    /\ UNCHANGED << flag, lib, current_rollout, current_tracer_ctx,
                    session_start_time, tool_call_count, open_ctx,
                    n_rollouts, lifespans, clock, rollout_failed >>

(***************************************************************************)
(* start_session.                                                          *)
(***************************************************************************)
CtxFailures == { "none", "lifespan", "aenter" }

\* Variant: start_session evaluates the gate again when it finds it closed.
StartSessionDisabledRecheck ==
    /\ enabled' = CheckEnabled(flag, lib).value
    /\ last' = [ NoOp EXCEPT !.op = "start_session" ]
    /\ UNCHANGED << current_rollout, current_tracer_ctx, session_start_time,
                    tool_call_count, backendState, rollout_failed >>

\* Line 93-94: the gate is closed.
StartSessionDisabled ==
    /\ last' = [ NoOp EXCEPT !.op = "start_session" ]
    /\ UNCHANGED << tracerState, backendState, rollout_failed >>

\* Variant: the handler of line 125 logs and leaves the gate open.
StartSessionRolloutFailsKeepsGate ==
    /\ rollout_failed' = TRUE
    /\ last' = [ NoOp EXCEPT !.op = "start_session",
                   !.calls = {"start_rollout"}, !.fail = "rollout" ]
    /\ UNCHANGED << enabled, current_rollout, current_tracer_ctx,
                    backendState >>

\* Lines 108, 125-127: store.start_rollout throws.
StartSessionRolloutFails ==
    /\ enabled' = FALSE
    /\ rollout_failed' = TRUE
    /\ last' = [ NoOp EXCEPT !.op = "start_session",
                   !.calls = {"start_rollout"}, !.fail = "rollout" ]
    /\ UNCHANGED << current_rollout, current_tracer_ctx, backendState >>

\* Variant: no inner try; a failing context open reaches the handler of
\* line 125, which closes the gate.
StartSessionOpenEscalates(ctxFail) ==
    /\ n_rollouts' = n_rollouts + 1
    /\ current_rollout' = Some(n_rollouts + 1)
    /\ lifespans' = IF ctxFail = "lifespan" THEN lifespans ELSE lifespans + 1
    /\ current_tracer_ctx' =
           IF ctxFail = "none" THEN Some(n_rollouts + 1)
           ELSE current_tracer_ctx
    /\ open_ctx' =
           IF ctxFail = "none"
           THEN open_ctx \cup { n_rollouts + 1 } ELSE open_ctx
    /\ enabled' = (ctxFail = "none")
    /\ last' = [ NoOp EXCEPT !.op = "start_session",
                   !.calls = IF ctxFail = "lifespan"
                             THEN {"start_rollout", "lifespan"}
                             ELSE {"start_rollout", "lifespan",
                                   "trace_context"},
                   !.fail = IF ctxFail = "none" THEN "none" ELSE "context" ]
    /\ UNCHANGED rollout_failed

\* Lines 108-123: the rollout starts; the trace context is opened, or its
\* failure is caught by the inner try.  The gate was open at line 93 and
\* stays open.
StartSessionOpen(ctxFail) ==
    /\ n_rollouts' = n_rollouts + 1
    /\ current_rollout' = Some(n_rollouts + 1)
    /\ lifespans' = IF ctxFail = "lifespan" THEN lifespans ELSE lifespans + 1
    /\ current_tracer_ctx' =
           IF ctxFail = "none" THEN Some(n_rollouts + 1) ELSE None
    /\ open_ctx' =
           IF ctxFail = "none"
           THEN open_ctx \cup { n_rollouts + 1 } ELSE open_ctx
    /\ last' = [ NoOp EXCEPT !.op = "start_session",
                   !.calls = IF ctxFail = "lifespan"
                             THEN {"start_rollout", "lifespan"}
                             ELSE {"start_rollout", "lifespan",
                                   "trace_context"},
                   !.fail = IF ctxFail = "none" THEN "none" ELSE "context" ]
    /\ enabled' = TRUE
    /\ UNCHANGED rollout_failed

StartSession(rolloutFails, ctxFail) ==
    /\ tracer = "live"
    /\ UNCHANGED << bridgeVars, args, prev_reward, emit_time >>
    /\ IF ~enabled
       THEN StartSessionDisabled
       ELSE /\ n_rollouts < MaxRollouts
            /\ session_start_time' = Some(clock)
            /\ tool_call_count' = 0
            /\ IF rolloutFails
               THEN StartSessionRolloutFails
               ELSE StartSessionOpen(ctxFail)
    /\ UNCHANGED << flag, lib, tracer, clock >>

(***************************************************************************)
(* trace_tool: a generator under @contextmanager.  TraceToolEnter is the   *)
(* run of the generator up to its first yield, TraceToolExit the run that  *)
(* contextmanager's __exit__ resumes after the wrapped work.               *)
(***************************************************************************)
\* kwargs of a call: the length of str(value) of each keyword argument.
KwargsInputs == { << >>, << 1 >>, << TruncLen + 1 >> }

\* Variant: the handler of line 158 logs and does not yield.
TraceToolEnterNoYield(en, ctx, openFails, attrFails) ==
    IF ~en \/ ctx = None THEN "y141"
    ELSE IF openFails \/ attrFails THEN "none"
    ELSE "y156"

\* The yield the generator stops at: line 141, 156 or 160.
TraceToolEnter(en, ctx, openFails, attrFails) ==
    IF ~en \/ ctx = None THEN "y141"
    ELSE IF openFails \/ attrFails THEN "y160"
    ELSE "y156"

\* What the caller of the with-block observes: "ok", the work's own
\* exception "E", or contextmanager's RuntimeError when the generator
\* yields a second time (line 160 reached after the yield of line 156).
TraceToolExit(yieldAt, workRaises, closeFails) ==
    IF yieldAt = "none" THEN "RuntimeError"
    ELSE IF yieldAt = "y156"
    THEN IF workRaises \/ closeFails THEN "RuntimeError" ELSE "ok"
    ELSE IF workRaises THEN "E" ELSE "ok"

\* span.set_attribute(f"tool.{key}", str(value)[:200])
SpanAttrs(kwargs) == [ i \in 1..Len(kwargs) |-> Min(kwargs[i], TruncLen) ]

TraceTool(kwargs, openFails, attrFails, workRaises, closeFails) ==
    /\ tracer = "live"
    /\ UNCHANGED << bridgeVars, args, prev_reward, emit_time >>
    /\ LET traced  == enabled /\ current_tracer_ctx # None
           yieldAt == TraceToolEnter(enabled, current_tracer_ctx,
                                     openFails, attrFails)
           outcome == TraceToolExit(yieldAt, workRaises, closeFails)
       IN  /\ traced => tool_call_count < MaxToolCalls
           /\ tool_call_count' =
                  IF traced THEN tool_call_count + 1 ELSE tool_call_count
           /\ last' = [ NoOp EXCEPT
                 !.op = "trace_tool",
                 !.yieldAt = yieldAt,
                 !.runs = IF yieldAt = "none" THEN 0 ELSE 1,
                 !.work = IF yieldAt = "none" THEN "none"
                          ELSE IF workRaises THEN "raise" ELSE "ok",
                 !.outcome = outcome,
                 !.raised = (outcome # "ok"),
                 !.calls = IF ~traced THEN {}
                           ELSE IF openFails THEN {"start_span"}
                           ELSE {"start_span", "set_attribute"},
                 !.attrs = IF yieldAt = "y156"
                           THEN SpanAttrs(kwargs) ELSE << >>,
                 !.fail = IF ~traced THEN "none"
                          ELSE IF openFails THEN "span_open"
                          ELSE IF attrFails THEN "set_attribute"
                          ELSE IF closeFails THEN "span_close"
                          ELSE "none" ]
    /\ UNCHANGED << flag, lib, tracer, enabled, current_rollout,
                    current_tracer_ctx, session_start_time, backendState,
                    clock, rollout_failed >>

(***************************************************************************)
(* emit_task_reward.                                                       *)
(***************************************************************************)
OptTokens == { None, Some(0), Some(1), Some(2) }

OptDurations == { None, Some(0), Some(ThirtySeconds - 1), Some(ThirtySeconds) }

OptRatings == { None, Some(NeutralRating - 2), Some(NeutralRating + 2) }

\* Variant: the duration is always taken from the clock when a session
\* start time is known.
EffectiveDurationFromClock(dur, now, sst) ==
    IF Truthy(sst) THEN Some(now - sst[1]) ELSE dur

\* duration_seconds after line 202.
EffectiveDuration(dur, now, sst) ==
    IF dur = None /\ Truthy(sst) THEN Some(now - sst[1]) ELSE dur

\* Lines 193-211, in tenths.
Reward(success, tu, et, dur, rating, now, sst) ==
    LET base     == IF success THEN BaseSuccess ELSE BaseFailure
        tokens   == IF Truthy(tu) /\ Truthy(et) /\ tu[1] < et[1]
                    THEN Bonus ELSE 0
        eff      == EffectiveDuration(dur, now, sst)
        time     == IF Truthy(eff) /\ eff[1] < ThirtySeconds
                    THEN Bonus ELSE 0
        feedback == IF rating # None
                    THEN (rating[1] - NeutralRating) * FeedbackWeight ELSE 0
    IN  base + tokens + time + feedback

\* Variant: a failing emit_reward closes the gate, as a failing rollout
\* start does.
EmitTaskRewardFailClosed(success, tu, et, dur, rating, emitFails) ==
    /\ tracer = "live"
    /\ UNCHANGED << bridgeVars, args >>
    /\ IF ~enabled \/ current_tracer_ctx = None
       THEN /\ last' = [ NoOp EXCEPT !.op = "emit_task_reward" ]
            /\ UNCHANGED enabled
       ELSE /\ last' = [ NoOp EXCEPT
                  !.op = "emit_task_reward",
                  !.calls = {"emit_reward"},
                  !.emitted = ~emitFails,
                  !.reward = IF emitFails THEN 0
                             ELSE Reward(success, tu, et, dur, rating,
                                         clock, session_start_time),
                  !.fail = IF emitFails THEN "emit_reward" ELSE "none" ]
            /\ enabled' = ~emitFails
    /\ UNCHANGED << flag, lib, tracer, current_rollout, current_tracer_ctx,
                    session_start_time, tool_call_count, backendState, clock,
                    rollout_failed >>

\* Lines 188-224: what a call does and shows; it assigns no field.
EmitResult(success, tu, et, dur, rating, emitFails) ==
    IF ~enabled \/ current_tracer_ctx = None
    THEN [ NoOp EXCEPT !.op = "emit_task_reward" ]
    ELSE [ NoOp EXCEPT
             !.op = "emit_task_reward",
             !.calls = {"emit_reward"},
             !.emitted = ~emitFails,
             !.reward = IF emitFails THEN 0
                        ELSE Reward(success, tu, et, dur, rating,
                                    clock, session_start_time),
             !.fail = IF emitFails THEN "emit_reward" ELSE "none" ]

EmitTaskReward(success, tu, et, dur, rating, emitFails) ==
    /\ tracer = "live"
    /\ UNCHANGED << bridgeVars, args >>
    /\ last' = EmitResult(success, tu, et, dur, rating, emitFails)
    /\ UNCHANGED << flag, lib, tracer, tracerState, backendState, clock,
                    rollout_failed >>

(***************************************************************************)
(* end_session.  The backend's __aexit__ may succeed, or throw before or   *)
(* after it has closed the context.                                        *)
(***************************************************************************)
ExitResults == { "ok", "fail_open", "fail_closed" }

\* Variant: end_session clears the session fields before it looks at the gate.
EndSessionDisabledClears ==
    /\ current_rollout' = None
    /\ session_start_time' = None
    /\ tool_call_count' = 0
    /\ last' = [ NoOp EXCEPT !.op = "end_session" ]
    /\ UNCHANGED << enabled, current_tracer_ctx, backendState >>

\* Lines 233-234: the gate is closed.
EndSessionDisabled ==
    /\ last' = [ NoOp EXCEPT !.op = "end_session" ]
    /\ UNCHANGED << tracerState, backendState >>

\* Lines 238, 251-252: __aexit__ throws; lines 239-249 are skipped.
EndSessionExitFails(exitResult) ==
    /\ open_ctx' = IF exitResult = "fail_closed"
                   THEN open_ctx \ { current_tracer_ctx[1] } ELSE open_ctx
    /\ last' = [ NoOp EXCEPT !.op = "end_session",
                   !.calls = {"aexit"}, !.fail = "aexit" ]
    /\ UNCHANGED << tracerState, n_rollouts, lifespans >>

\* Lines 237-249 without an exception.
EndSessionClear ==
    /\ open_ctx' = IF current_tracer_ctx # None
                   THEN open_ctx \ { current_tracer_ctx[1] } ELSE open_ctx
    /\ current_tracer_ctx' = None
    /\ current_rollout' = None
    /\ session_start_time' = None
    /\ tool_call_count' = 0
    /\ last' = [ NoOp EXCEPT !.op = "end_session",
                   !.calls = IF current_tracer_ctx # None
                             THEN {"aexit"} ELSE {} ]
    /\ UNCHANGED << enabled, n_rollouts, lifespans >>

EndSession(exitResult) ==
    /\ tracer = "live"
    /\ UNCHANGED << bridgeVars, args, prev_reward, emit_time >>
    /\ IF ~enabled
       THEN EndSessionDisabled
       ELSE IF current_tracer_ctx # None /\ exitResult # "ok"
       THEN EndSessionExitFails(exitResult)
       ELSE EndSessionClear
    /\ UNCHANGED << flag, lib, tracer, clock, rollout_failed >>

\* Time passes between operations.
Tick(d) ==
    /\ clock + d <= MaxClock
    /\ UNCHANGED << bridgeVars, args, prev_reward, emit_time >>
    /\ clock' = clock + d
    /\ UNCHANGED << flag, lib, tracer, tracerState, backendState,
                    rollout_failed, last >>

Next ==
    \/ \E ctorThrows \in BOOLEAN : Construct(ctorThrows)
    \/ \E rolloutFails \in BOOLEAN, ctxFail \in CtxFailures :
           StartSession(rolloutFails, ctxFail)
    \/ \E kwargs \in KwargsInputs,
          openFails, attrFails, workRaises, closeFails \in BOOLEAN :
           TraceTool(kwargs, openFails, attrFails, workRaises, closeFails)
    \/ \E success, emitFails \in BOOLEAN, tu, et \in OptTokens,
          dur \in OptDurations, rating \in OptRatings :
           /\ EmitTaskReward(success, tu, et, dur, rating, emitFails)
           /\ UNCHANGED << prev_reward, emit_time >>
    \/ \E exitResult \in ExitResults : EndSession(exitResult)
    \/ \E d \in { ThirtySeconds - 1, ThirtySeconds } : Tick(d)

Spec == Init /\ [][Next]_vars

(***************************************************************************)
(* The reward calculation on its own: the caller's reward arguments are    *)
(* drawn once, and every emit_task_reward of the behaviour passes them.    *)
(***************************************************************************)
RewardArgs ==
    [ success : BOOLEAN, tu : OptTokens, et : OptTokens, dur : OptDurations,
      rating : OptRatings ]

InitReward == InitBase /\ args \in RewardArgs

EmitChosen(emitFails) ==
    /\ EmitTaskReward(args.success, args.tu, args.et, args.dur, args.rating,
                      emitFails)
    /\ prev_reward' = IF last.op = "emit_task_reward" /\ last.emitted
                      THEN Some([ reward |-> last.reward, at |-> emit_time ])
                      ELSE None
    /\ emit_time' = clock

RewardNext ==
    \/ \E ctorThrows \in BOOLEAN : Construct(ctorThrows)
    \/ \E rolloutFails \in BOOLEAN, ctxFail \in CtxFailures :
           StartSession(rolloutFails, ctxFail)
    \/ \E emitFails \in BOOLEAN : EmitChosen(emitFails)
    \/ \E exitResult \in ExitResults : EndSession(exitResult)
    \/ \E d \in { ThirtySeconds - 1, ThirtySeconds } : Tick(d)

RewardSpec == InitReward /\ [][RewardNext]_vars

(***************************************************************************)
(* The bridge service (lightning_bridge_service.py): one handler per       *)
(* request.  Requests carry a session_id.  A registry record is shown by   *)
(* its tool_count; started_at and message are written once and never read. *)
(***************************************************************************)
SessionIds == { "A", "B" }

\* current_sessions[sid] = {...}
RegPut(reg, sid, rec) ==
    [ s \in DOMAIN reg \cup { sid } |-> IF s = sid THEN rec ELSE reg[s] ]

\* if session_id in current_sessions: del current_sessions[session_id]
RegDel(reg, sid) == [ s \in DOMAIN reg \ { sid } |-> reg[s] ]

\* Lines 72-76.
NewRecord == [ tool_count |-> 0 ]

\* `tracer is None or not tracer.enabled` is false.
GateOpen == tracer = "live" /\ enabled

\* Lines 104-116: the registry after /tool/trace.
ToolTraceRegistry(reg, sid, gateOpen) ==
    IF gateOpen /\ sid \in DOMAIN reg
    THEN [ reg EXCEPT ![sid].tool_count = @ + 1 ]
    ELSE reg

\* What every request does to the registry of the process whose flag is
\* off: its tracer is constructed disabled by the first /session/start.
OffRun(op, sid) ==
    off_sessions' =
        CASE op = "start" -> RegPut(off_sessions, sid, NewRecord)
          [] op = "tool"  -> ToolTraceRegistry(off_sessions, sid, FALSE)
          [] op = "end"   -> RegDel(off_sessions, sid)
          [] OTHER        -> off_sessions

Response(op, sid, status, f) ==
    [ op |-> op, sid |-> sid, status |-> status, flag |-> f ]

\* handle_session_start.
HandleSessionStart(sid, ctorThrows, rolloutFails, ctxFail) ==
    LET chk == CheckEnabled(flag, lib)
        en0 == IF tracer = "none" THEN chk.value /\ ~ctorThrows ELSE enabled
        opened == en0 /\ ~rolloutFails /\ ctxFail = "none"
    IN
    /\ IF tracer = "none" /\ chk.res = "raise"
       THEN \* Line 63 raises; lines 86-91 answer 500.
            /\ last' = [ NoOp EXCEPT !.op = "init", !.raised = TRUE,
                                     !.outcome = "AttributeError" ]
            /\ resp' = Response("start", sid, "500", FALSE)
            /\ UNCHANGED << tracer, tracerState, backendState,
                            rollout_failed, current_sessions, ctx_owner >>
       ELSE /\ tracer' = "live"
            /\ IF ~en0
               THEN StartSessionDisabled
               ELSE /\ n_rollouts < MaxRollouts
                    /\ session_start_time' = Some(clock)
                    /\ tool_call_count' = 0
                    /\ IF rolloutFails
                       THEN StartSessionRolloutFails
                       ELSE StartSessionOpen(ctxFail)
            /\ current_sessions' = RegPut(current_sessions, sid, NewRecord)
            /\ ctx_owner' = IF opened
                            THEN RegPut(ctx_owner, n_rollouts + 1, sid)
                            ELSE ctx_owner
            /\ resp' = Response("start", sid, "200", enabled')
    /\ started' = started \cup { sid }
    /\ OffRun("start", sid)
    /\ UNCHANGED << flag, lib, clock, args, prev_reward, emit_time,
                    exit_invoked, pending_end, pending_start >>

\* handle_tool_trace: no call of the tracer.
HandleToolTrace(sid) ==
    /\ (GateOpen /\ sid \in DOMAIN current_sessions) =>
           current_sessions[sid].tool_count < MaxToolCalls
    /\ current_sessions' = ToolTraceRegistry(current_sessions, sid, GateOpen)
    /\ resp' = Response("tool", sid, "200", GateOpen)
    /\ last' = NoOp
    /\ OffRun("tool", sid)
    /\ UNCHANGED << flag, lib, tracer, tracerState, backendState, clock,
                    rollout_failed, args, prev_reward, emit_time, started,
                    ctx_owner, exit_invoked, pending_end, pending_start >>

\* The reward fields of the request bodies (no user_rating is passed on).
RewardBodies ==
    { a \in RewardArgs : /\ a.rating = None
                         /\ a.tu \in { None, Some(1) }
                         /\ a.et \in { None, Some(2) }
                         /\ a.dur \in { None, Some(ThirtySeconds - 1) } }

\* handle_session_reward.
HandleSessionReward(sid, body, emitFails) ==
    /\ last' = IF GateOpen
               THEN EmitResult(body.success, body.tu, body.et, body.dur,
                               None, emitFails)
               ELSE NoOp
    /\ resp' = Response("reward", sid, "200", GateOpen)
    /\ OffRun("reward", sid)
    /\ UNCHANGED << flag, lib, tracer, tracerState, backendState, clock,
                    rollout_failed, args, prev_reward, emit_time,
                    current_sessions, started, ctx_owner, exit_invoked,
                    pending_end, pending_start >>

\* handle_session_end, when tracer.end_session() runs without suspending
\* or is not called.
HandleSessionEnd(sid, exitResult) ==
    /\ IF ~GateOpen
       THEN /\ last' = NoOp
            /\ UNCHANGED << tracerState, backendState, exit_invoked >>
       ELSE /\ exit_invoked' = IF current_tracer_ctx # None
                               THEN exit_invoked \cup { current_tracer_ctx[1] }
                               ELSE exit_invoked
            /\ IF current_tracer_ctx # None /\ exitResult # "ok"
               THEN EndSessionExitFails(exitResult)
               ELSE EndSessionClear
    /\ current_sessions' = RegDel(current_sessions, sid)
    /\ resp' = Response("end", sid, "200", GateOpen)
    /\ started' = started \ { sid }
    /\ OffRun("end", sid)
    /\ UNCHANGED << flag, lib, tracer, clock, rollout_failed, args,
                    prev_reward, emit_time, ctx_owner, pending_end,
                    pending_start >>

BridgeNext ==
    \/ \E sid \in SessionIds, ctorThrows, rolloutFails \in BOOLEAN,
          ctxFail \in CtxFailures :
           HandleSessionStart(sid, ctorThrows, rolloutFails, ctxFail)
    \/ \E sid \in SessionIds : HandleToolTrace(sid)
    \/ \E sid \in SessionIds, body \in RewardBodies, emitFails \in BOOLEAN :
           HandleSessionReward(sid, body, emitFails)
    \/ \E sid \in SessionIds, exitResult \in ExitResults :
           HandleSessionEnd(sid, exitResult)
    \/ \E d \in { ThirtySeconds - 1, ThirtySeconds } : Tick(d)

BridgeSpec == Init /\ [][BridgeNext]_vars

(***************************************************************************)
(* The bridge with handle_session_end suspended at the await of line 238   *)
(* of the tracer: other handlers run between the call of __aexit__ and     *)
(* its return.  At most one /session/end is suspended at a time.           *)
(***************************************************************************)
\* handle_session_end up to the await of __aexit__.
HandleSessionEndBegin(sid) ==
    /\ GateOpen /\ current_tracer_ctx # None
    /\ pending_end = None
    /\ pending_end' = Some([ sid |-> sid, ctx |-> current_tracer_ctx[1] ])
    /\ exit_invoked' = exit_invoked \cup { current_tracer_ctx[1] }
    /\ UNCHANGED << flag, lib, tracer, tracerState, backendState, clock,
                    rollout_failed, last, args, prev_reward, emit_time,
                    current_sessions, resp, started, off_sessions,
                    ctx_owner, pending_start >>

\* handle_session_end from the return of __aexit__: lines 239-252 of the
\* tracer on the fields as they are now, then lines 192-200 of the bridge.
HandleSessionEndFinish(exitResult) ==
    /\ pending_end # None
    /\ LET sid == pending_end[1].sid
           ctx == pending_end[1].ctx
       IN  /\ open_ctx' = IF exitResult = "fail_open"
                          THEN open_ctx ELSE open_ctx \ { ctx }
           /\ IF exitResult = "ok"
              THEN /\ current_tracer_ctx' = None
                   /\ current_rollout' = None
                   /\ session_start_time' = None
                   /\ tool_call_count' = 0
                   /\ last' = [ NoOp EXCEPT !.op = "end_session",
                                  !.calls = {"aexit"} ]
              ELSE /\ last' = [ NoOp EXCEPT !.op = "end_session",
                                  !.calls = {"aexit"}, !.fail = "aexit" ]
                   /\ UNCHANGED << current_tracer_ctx, current_rollout,
                                   session_start_time, tool_call_count >>
           /\ current_sessions' = RegDel(current_sessions, sid)
           /\ resp' = Response("end", sid, "200", TRUE)
           /\ started' = started \ { sid }
           /\ OffRun("end", sid)
    /\ pending_end' = None
    /\ UNCHANGED << flag, lib, tracer, enabled, n_rollouts, lifespans, clock,
                    rollout_failed, args, prev_reward, emit_time, ctx_owner,
                    exit_invoked, pending_start >>

AsyncNext ==
    \/ \E sid \in SessionIds, ctorThrows, rolloutFails \in BOOLEAN,
          ctxFail \in CtxFailures :
           HandleSessionStart(sid, ctorThrows, rolloutFails, ctxFail)
    \/ \E sid \in SessionIds : HandleToolTrace(sid)
    \/ \E sid \in SessionIds, body \in RewardBodies, emitFails \in BOOLEAN :
           HandleSessionReward(sid, body, emitFails)
    \/ \E sid \in SessionIds :
           /\ ~(GateOpen /\ current_tracer_ctx # None)
           /\ HandleSessionEnd(sid, "ok")
    \/ \E sid \in SessionIds : HandleSessionEndBegin(sid)
    \/ \E exitResult \in ExitResults : HandleSessionEndFinish(exitResult)
    \/ \E d \in { ThirtySeconds - 1, ThirtySeconds } : Tick(d)

AsyncSpec == Init /\ [][AsyncNext]_vars

(***************************************************************************)
(* The bridge with handle_session_start suspended as well, at the awaits   *)
(* of start_rollout (line 108) and of __aenter__ (lines 113-118) in        *)
(* start_session.  At most one /session/start is suspended at a time.      *)
(* /tool/trace and /session/reward assign no field of the tracer and are   *)
(* left out.                                                               *)
(***************************************************************************)
\* start_session reaches its first await: the tracer exists or is
\* constructed enabled, and the gate is open at line 93.
StartSuspends(ctorThrows) ==
    LET chk == CheckEnabled(flag, lib)
    IN  /\ ~(tracer = "none" /\ chk.res = "raise")
        /\ IF tracer = "none" THEN chk.value /\ ~ctorThrows ELSE enabled

\* Lines 72-84 of the bridge: the record and the response of /session/start.
StartResponds(sid) ==
    /\ current_sessions' = RegPut(current_sessions, sid, NewRecord)
    /\ resp' = Response("start", sid, "200", enabled')
    /\ started' = started \cup { sid }
    /\ OffRun("start", sid)
    /\ pending_start' = None

\* handle_session_start up to the await of start_rollout: lines 62-68 of the
\* bridge, lines 93-108 of the tracer.
HandleSessionStartBegin(sid) ==
    /\ pending_start = None
    /\ StartSuspends(FALSE)
    /\ n_rollouts < MaxRollouts
    /\ tracer' = "live"
    /\ enabled' = TRUE
    /\ session_start_time' = Some(clock)
    /\ tool_call_count' = 0
    /\ pending_start' = Some([ sid |-> sid, stage |-> "rollout", id |-> 0 ])
    /\ UNCHANGED << flag, lib, current_rollout, current_tracer_ctx,
                    backendState, clock, rollout_failed, last, args,
                    prev_reward, emit_time, current_sessions, resp, started,
                    off_sessions, ctx_owner, exit_invoked, pending_end >>

\* From the return of start_rollout to the await of __aenter__ (lines
\* 108-113), or to the response when start_rollout or lifespan fails.
HandleSessionStartRollout(rolloutFails, lifespanFails) ==
    /\ pending_start # None /\ pending_start[1].stage = "rollout"
    /\ LET sid == pending_start[1].sid
       IN  IF rolloutFails
           THEN /\ StartSessionRolloutFails
                /\ StartResponds(sid)
                /\ UNCHANGED << session_start_time, tool_call_count >>
           ELSE /\ n_rollouts' = n_rollouts + 1
                /\ current_rollout' = Some(n_rollouts + 1)
                /\ UNCHANGED << enabled, session_start_time, tool_call_count,
                                open_ctx, rollout_failed >>
                /\ IF lifespanFails
                   THEN /\ current_tracer_ctx' = None
                        /\ last' = [ NoOp EXCEPT !.op = "start_session",
                                       !.calls = {"start_rollout", "lifespan"},
                                       !.fail = "context" ]
                        /\ StartResponds(sid)
                        /\ UNCHANGED lifespans
                   ELSE /\ lifespans' = lifespans + 1
                        /\ pending_start' =
                               Some([ sid |-> sid, stage |-> "aenter",
                                      id |-> n_rollouts + 1 ])
                        /\ UNCHANGED << current_tracer_ctx, last,
                                        current_sessions, resp, started,
                                        off_sessions >>
    /\ UNCHANGED << flag, lib, tracer, clock, args, prev_reward, emit_time,
                    ctx_owner, exit_invoked, pending_end >>

\* From the return of __aenter__ (lines 113-123): the handle is assigned, or
\* None when __aenter__ raised; line 123 reads self.current_rollout.rollout_id
\* and raises AttributeError into the handler of line 125 when the field
\* has become None.
HandleSessionStartFinish(aenterFails) ==
    /\ pending_start # None /\ pending_start[1].stage = "aenter"
    /\ LET sid == pending_start[1].sid
           id == pending_start[1].id
       IN  /\ current_tracer_ctx' = IF aenterFails THEN None ELSE Some(id)
           /\ open_ctx' = IF aenterFails THEN open_ctx
                          ELSE open_ctx \cup { id }
           /\ ctx_owner' = IF aenterFails THEN ctx_owner
                           ELSE RegPut(ctx_owner, id, sid)
           /\ enabled' = (enabled /\ current_rollout # None)
           /\ last' = [ NoOp EXCEPT !.op = "start_session",
                          !.calls = {"start_rollout", "lifespan",
                                     "trace_context"},
                          !.fail = IF current_rollout = None THEN "debug"
                                   ELSE IF aenterFails THEN "context"
                                   ELSE "none" ]
           /\ StartResponds(sid)
    /\ UNCHANGED << flag, lib, tracer, current_rollout, session_start_time,
                    tool_call_count, n_rollouts, lifespans, clock,
                    rollout_failed, args, prev_reward, emit_time,
                    exit_invoked, pending_end >>

InterleavedNext ==
    \/ \E sid \in SessionIds, ctorThrows \in BOOLEAN :
           /\ ~StartSuspends(ctorThrows)
           /\ HandleSessionStart(sid, ctorThrows, FALSE, "none")
    \/ \E sid \in SessionIds : HandleSessionStartBegin(sid)
    \/ \E rolloutFails, lifespanFails \in BOOLEAN :
           HandleSessionStartRollout(rolloutFails, lifespanFails)
    \/ \E aenterFails \in BOOLEAN : HandleSessionStartFinish(aenterFails)
    \/ \E sid \in SessionIds :
           /\ ~(GateOpen /\ current_tracer_ctx # None)
           /\ HandleSessionEnd(sid, "ok")
    \/ \E sid \in SessionIds : HandleSessionEndBegin(sid)
    \/ \E exitResult \in ExitResults : HandleSessionEndFinish(exitResult)
    \/ \E d \in { ThirtySeconds - 1, ThirtySeconds } : Tick(d)

InterleavedSpec == Init /\ [][InterleavedNext]_vars

(***************************************************************************)
(* Properties.                                                             *)
(***************************************************************************)
\* A step that is a call of the tracer (time stands still during it).
OpStep == clock' = clock

\* The outcome of the wrapped work itself.
WorkOutcome(l) == IF l.work = "raise" THEN "E" ELSE "ok"

\* C1: after a trace_tool call on an enabled tracer with a valid context,
\* the caller has observed exactly the wrapped work's outcome: normal
\* completion if the work completed, the work's own exception E if it raised.
C1_OutcomeIsWorkOutcome ==
    (last.op = "trace_tool" /\ enabled /\ current_tracer_ctx # None)
        => last.outcome = WorkOutcome(last)

\* C2: every trace_tool call, in every tracer state and whichever step of
\* the span setup fails, has run the wrapped work exactly once.
C2_WorkRunsExactlyOnce ==
    last.op = "trace_tool" => last.runs = 1

\* A traced call whose span setup failed and whose work ran.
C2_Witness ==
    /\ last.op = "trace_tool"
    /\ last.fail \in { "span_open", "set_attribute" }
    /\ last.runs = 1

\* C3: while enabled is false, every call of start_session, trace_tool,
\* emit_task_reward and end_session makes no backend call, leaves the
\* tracer's state as it was and raises nothing of its own; trace_tool runs
\* the wrapped work once and hands its outcome through.
C3_DisabledIsNoOp ==
    [][ (tracer = "live" /\ ~enabled /\ OpStep) =>
            /\ tracerState' = tracerState
            /\ backendState' = backendState
            /\ last'.calls = {}
            /\ ~last'.emitted
            /\ IF last'.op = "trace_tool"
               THEN last'.runs = 1 /\ last'.outcome = WorkOutcome(last')
               ELSE ~last'.raised ]_vars

\* A disabled tracer that still holds the fields of a session whose start
\* failed, after a trace_tool call whose work raised.
C3_Witness ==
    /\ tracer = "live" /\ ~enabled
    /\ session_start_time # None
    /\ last.op = "trace_tool" /\ last.work = "raise"

\* C4: constructing a tracer never raises, and afterwards enabled is true
\* exactly when the flag is on, the library is present and the construction
\* of the backend objects did not throw.
C4_ConstructNeverRaises ==
    last.op = "init" =>
        /\ ~last.raised
        /\ tracer = "live"
        /\ enabled <=> (flag /\ lib /\ last.fail # "ctor")

\* C5: once an end_session call has returned (its own close of a context
\* not having thrown), no trace context opened by an earlier start_session
\* is still open, whatever happened in between: a second start_session, a
\* start_session whose rollout start failed, a failing context open.
C5_NoContextOutlivesEnd ==
    (last.op = "end_session" /\ last.fail = "none") => open_ctx = {}

\* C6: after end_session has returned on an enabled tracer, the context
\* handle, the rollout reference and the start time are cleared and the
\* tool counter is 0, whether or not closing the context succeeded.
C6_EndSessionClears ==
    (last.op = "end_session" /\ enabled) =>
        /\ current_tracer_ctx = None
        /\ current_rollout = None
        /\ session_start_time = None
        /\ tool_call_count = 0

\* C7: at most one trace context opened through the tracer is open in the
\* backend at any time.
C7_AtMostOneOpenContext ==
    Cardinality(open_ctx) <= 1

\* C8: a start_session whose rollout start fails does not raise and leaves
\* enabled false, and every later call on the tracer is a no-op: no backend
\* call, no change of the tracer's state, nothing raised of its own.
C8_RolloutFailureDisables ==
    [][ /\ rollout_failed' => ~enabled'
        /\ last'.op = "start_session" => ~last'.raised
        /\ (rollout_failed /\ OpStep) =>
               /\ tracerState' = tracerState
               /\ backendState' = backendState
               /\ last'.calls = {}
               /\ ~last'.emitted
               /\ IF last'.op = "trace_tool"
                  THEN last'.runs = 1 /\ last'.outcome = WorkOutcome(last')
                  ELSE ~last'.raised ]_vars

\* A session held a valid context, the next start_session failed in its
\* rollout start, and a later start_session has been called.
C8_Witness ==
    /\ rollout_failed
    /\ current_tracer_ctx # None
    /\ last.op = "start_session" /\ last.calls = {}

\* C9: enabled is a one-way latch: once false on a constructed tracer, it
\* is false in every later state.
C9_EnabledIsLatch ==
    [][ (tracer = "live" /\ ~enabled) => ~enabled' ]_vars

\* A tracer whose flag is on and library present, disabled all the same,
\* on which start_session has been called again.
C9_Witness ==
    /\ tracer = "live" /\ ~enabled /\ flag /\ lib
    /\ last.op = "start_session"

\* C10: a start_session whose rollout starts but whose context open fails
\* does not raise, keeps enabled true and leaves the context handle unset;
\* while the handle is unset trace_tool and emit_task_reward are no-ops;
\* and a later start_session whose backend steps all succeed holds a valid,
\* open context.
C10_ContextFailureIsConfined ==
    [][ OpStep =>
        /\ (last'.op = "start_session" /\ last'.fail = "context") =>
               /\ enabled' /\ ~last'.raised
               /\ current_tracer_ctx' = None
        /\ (enabled /\ current_tracer_ctx = None
              /\ last'.op \in { "trace_tool", "emit_task_reward" }) =>
               /\ tracerState' = tracerState
               /\ backendState' = backendState
               /\ last'.calls = {}
               /\ ~last'.emitted
               /\ IF last'.op = "trace_tool"
                  THEN last'.runs = 1 /\ last'.outcome = WorkOutcome(last')
                  ELSE ~last'.raised
        /\ (enabled /\ last'.op = "start_session" /\ last'.fail = "none") =>
               /\ enabled' /\ ~last'.raised
               /\ current_tracer_ctx' # None
               /\ current_tracer_ctx'[1] \in open_ctx' ]_vars

\* A context open failed in an earlier session (fewer lifespans entered
\* than rollouts started) and the session started last holds a valid context.
C10_Witness ==
    /\ enabled
    /\ lifespans < n_rollouts
    /\ last.op = "start_session" /\ last.fail = "none"
    /\ current_tracer_ctx # None

\* The tracer is IDLE: no context, no rollout, no start time, counter 0.
Idle ==
    /\ current_tracer_ctx = None
    /\ current_rollout = None
    /\ session_start_time = None
    /\ tool_call_count = 0

\* C11: end_session is idempotent on an enabled tracer: a call raises
\* nothing and leaves the tracer IDLE, and a call that directly follows
\* another end_session makes no backend call.
C11_EndSessionIdempotent ==
    [][ (tracer = "live" /\ enabled /\ OpStep /\ last'.op = "end_session") =>
            /\ ~last'.raised
            /\ Idle'
            /\ last.op = "end_session" => last'.calls = {} ]_vars

\* C17: emit_task_reward calls the backend only on an enabled tracer that
\* holds a valid context; in every state, also when forwarding throws, it
\* raises nothing and leaves enabled, the context handle, the rollout, the
\* start time and the tool counter as they were.
C17_EmitRewardFrame ==
    [][ (OpStep /\ last'.op = "emit_task_reward") =>
            /\ ~last'.raised
            /\ tracerState' = tracerState
            /\ backendState' = backendState
            /\ (last'.calls # {} \/ last'.emitted) =>
                   (enabled /\ current_tracer_ctx # None) ]_vars

\* An emit_task_reward whose forwarding threw, in a session with tool calls.
C17_Witness ==
    /\ last.op = "emit_task_reward" /\ last.fail = "emit_reward"
    /\ enabled /\ current_tracer_ctx # None
    /\ tool_call_count > 0

\* The parts of the reward that depend on success and on the rating.
BaseAndFeedback(a) ==
    (IF a.success THEN BaseSuccess ELSE BaseFailure)
    + (IF a.rating # None
       THEN (a.rating[1] - NeutralRating) * FeedbackWeight ELSE 0)

\* The token bonus as stated: both values given and tokens_used below
\* expected_tokens.
StatedTokenBonus(a) ==
    IF a.tu # None /\ a.et # None /\ a.tu[1] < a.et[1] THEN Bonus ELSE 0

\* The time bonus as stated: the explicit duration when given, else the
\* time since the session start when known, is below 30 seconds.
StatedTimeBonus(a, now, sst) ==
    LET eff == IF a.dur # None THEN a.dur
               ELSE IF sst # None THEN Some(now - sst[1]) ELSE None
    IN  IF eff # None /\ eff[1] < ThirtySeconds THEN Bonus ELSE 0

\* C14: a forwarded reward includes the token bonus exactly when
\* tokens_used and expected_tokens are both given and tokens_used is below
\* expected_tokens (tokens_used = 0 included): what is left of the reward
\* after base, feedback and the stated token bonus is the time bonus, 0 or
\* one tenth.
C14_TokenBonusIff ==
    (last.op = "emit_task_reward" /\ last.emitted) =>
        last.reward - BaseAndFeedback(args) - StatedTokenBonus(args)
            \in { 0, Bonus }

\* C15: a forwarded reward includes the time bonus exactly when the
\* effective duration (the explicit duration, 0 included, else the time
\* that has passed since the session start) is below 30 seconds: what is
\* left of the reward after base, feedback and the stated time bonus is the
\* token bonus, 0 or one tenth.
C15_TimeBonusIff ==
    [][ (OpStep /\ last'.op = "emit_task_reward" /\ last'.emitted
           /\ (args.dur # None \/ clock > session_start_time[1])) =>
            last'.reward - BaseAndFeedback(args)
                - StatedTimeBonus(args, clock, session_start_time)
                \in { 0, Bonus } ]_vars

\* Two emit_task_reward calls in a row, both after time has passed since
\* the session start, have both forwarded a reward.
TwoRewards ==
    /\ last.op = "emit_task_reward" /\ last.emitted
    /\ prev_reward # None
    /\ session_start_time # None
    /\ prev_reward[1].at > session_start_time[1]

\* C16: two emit_task_reward calls in a row with the same arguments forward
\* the same reward, whatever the clock reads at each call.
C16_RewardDeterministic ==
    TwoRewards => last.reward = prev_reward[1].reward

\* C16 (amended): two emit_task_reward calls in a row with the same
\* arguments, duration_seconds given, forward the same reward, whatever the
\* clock reads at each call.
C16_RewardDeterministicGivenDuration ==
    (TwoRewards /\ args.dur # None) => last.reward = prev_reward[1].reward

\* Two rewards forwarded in a row with an explicit duration under 30
\* seconds, the first less than 30 seconds after the session start and the
\* second more.
C16_Witness ==
    /\ TwoRewards
    /\ args.dur = Some(ThirtySeconds - 1)
    /\ prev_reward[1].at - session_start_time[1] < ThirtySeconds
    /\ clock - session_start_time[1] >= ThirtySeconds
    /\ emit_time = clock

\* A step taken by the handler of the named bridge request.
HandlerStep(op) == OpStep /\ pending_end' = pending_end /\ resp'.op = op

\* C12: the registry holds a record for exactly the session ids whose
\* /session/start has responded and whose /session/end has not been handled,
\* in every tracer state, so active_sessions is the number of those ids.
C12_RegistryTracksSessions ==
    /\ DOMAIN current_sessions = started
    /\ Cardinality(DOMAIN current_sessions) = Cardinality(started)

\* C13: after the same sequence of bridge requests the registry (the set of
\* ids and every tool_count) of a run with tracing enabled equals the
\* registry of the run with tracing disabled.
C13_RegistryIndependentOfGate ==
    (flag /\ lib) => current_sessions = off_sessions

\* C19: POST /tool/trace for a registered id s raises the tool_count of s by
\* exactly 1 and changes no other record, no registered id and no tracer or
\* backend state, and opens no span.
C19_ToolTraceFrame ==
    [][ (HandlerStep("tool") /\ resp'.sid \in DOMAIN current_sessions) =>
            /\ DOMAIN current_sessions' = DOMAIN current_sessions
            /\ current_sessions'[resp'.sid].tool_count =
                   current_sessions[resp'.sid].tool_count + 1
            /\ \A o \in DOMAIN current_sessions \ { resp'.sid } :
                   current_sessions'[o] = current_sessions[o]
            /\ tracerState' = tracerState
            /\ backendState' = backendState
            /\ last'.calls = {} ]_vars

\* C20: POST /session/end for a session id closes no trace context opened by
\* the /session/start of another id.
C20_EndClosesOwnContextOnly ==
    [][ HandlerStep("end") =>
            \A c \in open_ctx \ open_ctx' : ctx_owner[c] = resp'.sid ]_vars

\* C18: under every interleaving of the handlers at the await of
\* end_session, no reward is emitted under a trace context whose exit has
\* been invoked.
C18_NothingAfterExitInvoked ==
    [][ (HandlerStep("reward") /\ last'.calls = {"emit_reward"}) =>
            current_tracer_ctx[1] \notin exit_invoked ]_vars

\* C21: under every interleaving of start_session and end_session at their
\* awaits, a tracer that holds a trace context handle holds the rollout
\* that context was opened for and a session start time.
C21_ActiveStateConsistent ==
    current_tracer_ctx # None =>
        /\ current_rollout = current_tracer_ctx
        /\ session_start_time # None

=============================================================================
